---- MODULE Spec2Model ----
(***************************************************************************)
(* Model of the LECAPs dashboard (lecaps-app/src/App.tsx): the holdings    *)
(* and portfolios tables kept by the persistence service, the Dashboard    *)
(* component's state, and its handlers loadPortfolios, load, addRow        *)
(* (insert / weighted-average merge), saveEdit, removeRow and undo.        *)
(*                                                                         *)
(* Numbers are JavaScript numbers modelled exactly: a pair <<n, d>> with   *)
(* d > 0 is the rational n/d in lowest terms, and <<0, 0>> stands for the  *)
(* non-finite values (NaN, +Infinity, -Infinity).  Dates are the strings   *)
(* produced by <input type="date">: <<y, m, d>> for "yyyy-mm-dd" and <<>>  *)
(* for the empty string.  A column holding SQL NULL is <<>>.               *)
(***************************************************************************)
EXTENDS Integers, Sequences, FiniteSets, TLC

\* Bound on the number of handler invocations that write to the store.
MaxOps == 2

(***************************************************************************)
(* JavaScript numbers                                                      *)
(***************************************************************************)
Null == <<>>
NonFinite == <<0, 0>>
Zero == <<0, 1>>

Abs(x) == IF x < 0 THEN -x ELSE x

RECURSIVE Gcd(_, _)
Gcd(a, b) == IF b = 0 THEN a ELSE Gcd(b, a % b)

\* the rational n/d (d # 0) in lowest terms with a positive denominator
Norm(n, d) ==
  LET g == Gcd(Abs(n), Abs(d))
      s == IF d < 0 THEN -1 ELSE 1
  IN  <<(s * n) \div g, (s * d) \div g>>

IsFinite(x) == x[2] # 0

NumAdd(a, b) ==
  IF IsFinite(a) /\ IsFinite(b)
  THEN Norm(a[1] * b[2] + b[1] * a[2], a[2] * b[2])
  ELSE NonFinite

NumMul(a, b) ==
  IF IsFinite(a) /\ IsFinite(b)
  THEN Norm(a[1] * b[1], a[2] * b[2])
  ELSE NonFinite

\* a / b: division by zero gives NaN or an infinity
NumDiv(a, b) ==
  IF IsFinite(a) /\ IsFinite(b) /\ b[1] # 0
  THEN Norm(a[1] * b[2], a[2] * b[1])
  ELSE NonFinite

\* !x for a number: 0 and NaN are falsy
Falsy(x) == x = NonFinite \/ x[1] = 0

\* x || 0
OrZero(x) == IF Falsy(x) THEN Zero ELSE x

\* Number(s) for the strings the forms can hold
ToNumber(s) ==
  CASE s = ""     -> Zero
    [] s = "abc"  -> NonFinite
    [] s = "0"    -> Zero
    [] s = "10"   -> <<10, 1>>
    [] s = "-10"  -> <<-10, 1>>
    [] s = "95"   -> <<95, 1>>
    [] s = "97"   -> <<97, 1>>
    [] s = "-95"  -> <<-95, 1>>
    [] s = "100"  -> <<100, 1>>
    [] s = "-100" -> <<-100, 1>>

\* Number(v || 0) for a numeric column read back from the store
ColNumber(v) == IF v = Null THEN Zero ELSE OrZero(v)

\* JSON.stringify of a number in a request body: non-finite becomes null
JsonNumber(x) == IF IsFinite(x) THEN x ELSE Null

(***************************************************************************)
(* Strings: String(s || "").trim().toUpperCase() on the ticker inputs      *)
(***************************************************************************)
Trim(s) == IF s = " " THEN "" ELSE s
ToUpperCase(s) == CASE s = "a" -> "A" [] s = "b" -> "B" [] OTHER -> s
NormTicker(s) == ToUpperCase(Trim(s))

(***************************************************************************)
(* Dates: new Date("yyyy-mm-dd") is midnight UTC of that civil day; its    *)
(* time value is compared, here counted in days since 1970-01-01.          *)
(***************************************************************************)
NoDate == <<>>
D0101 == <<2025, 1, 1>>
D0201 == <<2025, 2, 1>>
D0601 == <<2025, 6, 1>>
D0701 == <<2025, 7, 1>>

DateValue(s) ==
  LET y   == IF s[2] <= 2 THEN s[1] - 1 ELSE s[1]
      era == y \div 400
      yoe == y - era * 400
      mp  == IF s[2] > 2 THEN s[2] - 3 ELSE s[2] + 9
      doy == (153 * mp + 2) \div 5 + s[3] - 1
      doe == yoe * 365 + yoe \div 4 - yoe \div 100 + doy
  IN  era * 146097 + doe - 719468

\* minDateStr with the comparison turned round
minDateStrLatest(a, b) ==
  IF a = NoDate THEN b
  ELSE IF b = NoDate THEN a
  ELSE IF DateValue(a) >= DateValue(b) THEN a ELSE b

minDateStr(a, b) ==
  IF a = NoDate THEN b
  ELSE IF b = NoDate THEN a
  ELSE IF DateValue(a) <= DateValue(b) THEN a ELSE b

maxDateStr(a, b) ==
  IF a = NoDate THEN b
  ELSE IF b = NoDate THEN a
  ELSE IF DateValue(a) >= DateValue(b) THEN a ELSE b

(***************************************************************************)
(* computeMetrics: the figures shown for a row                             *)
(***************************************************************************)
D1231 == <<2025, 12, 31>>
D260101 == <<2026, 1, 1>>

\* a field of a record that holds a string (a numeric field holds <<n, d>>,
\* a field that is null or absent holds Null)
Text(s) == <<s>>

\* Number(v || 0) for a field of the record given to computeMetrics: null,
\* undefined, "", 0 and NaN are falsy; any other string is parsed
FieldNumber(v) ==
  IF v = Null THEN Zero
  ELSE IF Len(v) = 1 THEN (IF v[1] = "" THEN Zero ELSE ToNumber(v[1]))
  ELSE OrZero(v)

\* x <= 0 (false for NaN)
LeqZero(x) == IsFinite(x) /\ x[1] <= 0

\* the day of getFullYear(), getMonth(), getDate() for new Date(s): s is
\* parsed as midnight UTC, which in a zone west of Greenwich is still the
\* evening of the day before
LocalDay(s, west) == IF west THEN DateValue(s) - 1 ELSE DateValue(s)

\* diffDaysUTC without the floor of one day
diffDaysUTCNoMax(a, b) == a - b

\* diffDaysUTC(a, b) for the local days a and b: both Date.UTC values are
\* midnights, so ms / 86400000 is their difference in days
diffDaysUTC(a, b) == IF a - b >= 1 THEN a - b ELSE 1

\* the largest k with 2^k <= n (n >= 1)
RECURSIVE FloorLog2(_)
FloorLog2(n) == IF n < 2 THEN 0 ELSE 1 + FloorLog2(n \div 2)

\* Math.pow(x, 365 / dias) - 1 for a finite x > 0.  The power is a double:
\* it is Infinity from 2^1024 on.  With k = FloorLog2 of the integer part
\* of x, 2^k <= x < 2^(k+1): the power overflows if 365 * k >= 1024 * dias
\* and does not if 365 * (k + 1) < 1024 * dias.  A power that is not
\* rational is kept as <<n, d, dias>>, standing for (n/d)^(365/dias) - 1,
\* and one between the two bounds as <<n, d, dias, 0>>.
PowMinusOne(x, dias) ==
  LET k == FloorLog2(x[1] \div x[2])
  IN  IF dias = 365 \/ x = <<1, 1>> THEN NumAdd(x, <<-1, 1>>)
      ELSE IF 365 * k >= 1024 * dias THEN NonFinite
      ELSE IF 365 * (k + 1) < 1024 * dias THEN <<x[1], x[2], dias>>
      ELSE <<x[1], x[2], dias, 0>>

\* computeMetrics(row), called when the clock shows the local day now in a
\* zone west of Greenwich or not
computeMetrics(row, now, west) ==
  LET cantidad == FieldNumber(row.cantidad)
      pc == FieldNumber(row.precio_compra)
      pf == FieldNumber(row.precio_finish)
      P == NumMul(cantidad, pc)
      VF == NumMul(cantidad, pf)
      d0 == IF row.fecha_compra = NoDate THEN now
            ELSE LocalDay(row.fecha_compra, west)
      d1 == IF row.fecha_finish = NoDate THEN now
            ELSE LocalDay(row.fecha_finish, west)
      dias == diffDaysUTC(d1, d0)
  IN  IF LeqZero(P) \/ LeqZero(VF)
      THEN [dias |-> dias, P |-> Zero, VF |-> Zero, tna |-> NonFinite,
            tea |-> NonFinite, ytm |-> NonFinite, ret |-> NonFinite]
      ELSE LET ret == NumDiv(NumAdd(VF, NumMul(<<-1, 1>>, P)), P)
               tna == NumMul(ret, NumDiv(<<365, 1>>, <<dias, 1>>))
               tea == IF IsFinite(P) /\ IsFinite(VF)
                      THEN PowMinusOne(NumDiv(VF, P), dias) ELSE NonFinite
           IN  [dias |-> dias, P |-> P, VF |-> VF, tna |-> tna,
                tea |-> tea, ytm |-> tea, ret |-> ret]

(***************************************************************************)
(* The first variant of the interface (unnamed/part_000)                   *)
(***************************************************************************)
\* diffDaysUTC with a floor of no day
diffDaysUTCFloor0(a, b) == IF a - b >= 0 THEN a - b ELSE 0

\* diffDaysUTC(a, b) of the first variant, for the local days a and b
diffDaysUTCFirst(a, b) == IF a - b >= 1 THEN a - b ELSE 1

\* computeMetrics(row) of the first variant
computeMetricsFirst(row, now, west) ==
  LET cantidad == FieldNumber(row.cantidad)
      pc == FieldNumber(row.precio_compra)
      pf == FieldNumber(row.precio_finish)
      P == NumMul(cantidad, pc)
      VF == NumMul(cantidad, pf)
      d0 == IF row.fecha_compra = NoDate THEN now
            ELSE LocalDay(row.fecha_compra, west)
      d1 == IF row.fecha_finish = NoDate THEN now
            ELSE LocalDay(row.fecha_finish, west)
      dias == diffDaysUTCFirst(d1, d0)
  IN  IF LeqZero(P) \/ LeqZero(VF)
      THEN [dias |-> dias, P |-> Zero, VF |-> Zero, tna |-> NonFinite,
            tea |-> NonFinite, ytm |-> NonFinite, ret |-> NonFinite]
      ELSE LET ret == NumDiv(NumAdd(VF, NumMul(<<-1, 1>>, P)), P)
               tna == NumMul(ret, NumDiv(<<365, 1>>, <<dias, 1>>))
               tea == IF IsFinite(P) /\ IsFinite(VF)
                      THEN PowMinusOne(NumDiv(VF, P), dias) ELSE NonFinite
               ytm == tea
           IN  [dias |-> dias, P |-> P, VF |-> VF, tna |-> tna,
                tea |-> tea, ytm |-> ytm, ret |-> ret]

(***************************************************************************)
(* The persistence service and the Dashboard                               *)
(***************************************************************************)
User == "u1"
OtherUser == "u2"
NoPid == 0

VARIABLES
  holdings,        \* table "holdings" of the persistence service
  dbPortfolios,    \* table "portfolios" of the persistence service
  nextId,          \* source of the identifiers / created_at the service generates
  portfoliosLoaded,\* the mount effect (loadPortfolios) has run
  portfolios,      \* Dashboard state: portfolios
  currentPid,      \* Dashboard state: currentPid (NoPid is null)
  rows,            \* Dashboard state: rows
  lastAction,      \* Dashboard state: lastAction (the undo slot)
  lastOp,          \* the handler invocation that made the last step, and its outcome
  ops,             \* number of store writes made so far
  calls,           \* the addRow invocations in flight, each between two awaits
  today,           \* the local date of the clock (new Date())
  metrics,         \* a record given to computeMetrics and what it returned
  loads,           \* the portfolio ids whose listing by load() is awaited
  bought           \* the purchases addRow has completed, in the order submitted

vars == <<holdings, dbPortfolios, nextId, portfoliosLoaded, portfolios,
          currentPid, rows, lastAction, lastOp, ops, calls, today, metrics, loads, bought>>

\* type LastAction
NoAction == [type |-> "none"]
DeleteAction(row) == [type |-> "delete", row |-> row]
\* the field "after" of an update action is never read and is left out
UpdateAction(before) == [type |-> "update", before |-> before]

NoForm == [ticker |-> "", cantidad |-> "", precio_compra |-> "",
           precio_finish |-> "", fecha_compra |-> NoDate, fecha_finish |-> NoDate]

\* lastOp: the handler that made the last step and its outcome; when it
\* wrote to the store, the id it wrote to, the record the store held under
\* that id just before, the form it was given and the answer of its lookup
OpWith(name, result, id, pre, form, found) ==
  [op |-> name, result |-> result, id |-> id, pre |-> pre,
   form |-> form, found |-> found]
Op(name, result, id, pre) == OpWith(name, result, id, pre, NoForm, <<>>)

\* an addRow invocation: where it stands (pc), the form and the currentPid it
\* read when it was called, the answer of its lookup, how it ended, whether
\* another handler has taken a step since it was called (overlap), and
\* whether none had when it ended (alone)
Calls == {1, 2}
NoCall == [pc |-> "idle", form |-> NoForm, pid |-> NoPid, existentes |-> <<>>,
           result |-> "none", overlap |-> FALSE, alone |-> FALSE]
NoCalls == [c \in Calls |-> NoCall]

\* no record has been given to computeMetrics
NoMetrics == [n |-> 0]

(***************************************************************************)
(* Contents of the store when the Dashboard is constructed                 *)
(***************************************************************************)
\* the record with the two prices in each other's column
LotPricesSwapped(id, user, pid, ticker, cant, pc, pf, fc, ff) ==
  [id |-> id, user_id |-> user, portfolio_id |-> pid, ticker |-> ticker,
   cantidad |-> cant, precio_compra |-> pf, precio_finish |-> pc,
   fecha_compra |-> fc, fecha_finish |-> ff, created_at |-> id]

Lot(id, user, pid, ticker, cant, pc, pf, fc, ff) ==
  [id |-> id, user_id |-> user, portfolio_id |-> pid, ticker |-> ticker,
   cantidad |-> cant, precio_compra |-> pc, precio_finish |-> pf,
   fecha_compra |-> fc, fecha_finish |-> ff, created_at |-> id]

NoLot == Lot(0, "", 0, "", Zero, Zero, Zero, NoDate, NoDate)
LotA1 == Lot(11, User, 1, "A", <<10, 1>>, <<95, 1>>, <<100, 1>>, D0101, D0601)
LotA2 == Lot(12, User, 1, "A", <<10, 1>>, <<97, 1>>, <<100, 1>>, D0201, D0701)
LotP2 == Lot(13, User, 2, "A", <<10, 1>>, <<95, 1>>, <<100, 1>>, D0201, D0601)
LotU2 == Lot(14, OtherUser, 3, "A", <<10, 1>>, <<97, 1>>, <<100, 1>>, D0101, D0701)

\* the portfolio recorded under another owner
PortfolioOfOther(id, user, name) == [id |-> id, user_id |-> OtherUser, name |-> name]

Portfolio(id, user, name) == [id |-> id, user_id |-> user, name |-> name]
OtherPortfolios == {Portfolio(3, OtherUser, "General")}
UserPortfolios == {Portfolio(1, User, "General"), Portfolio(2, User, "Cartera 2")}

\* a first login, and a store left by earlier sessions (two lots of one
\* ticker in a portfolio are what an edit of a ticker leaves)
InitStores ==
  { [p |-> OtherPortfolios, h |-> {LotU2}],
    [p |-> OtherPortfolios \cup UserPortfolios, h |-> {LotU2, LotP2, LotA1, LotA2}] }

Init ==
  /\ \E s \in InitStores : dbPortfolios = s.p /\ holdings = s.h
  /\ nextId = 20
  /\ portfoliosLoaded = FALSE
  /\ portfolios = <<>>
  /\ currentPid = NoPid
  /\ rows = {}
  /\ lastAction = NoAction
  /\ lastOp = Op("init", "ok", 0, NoLot)
  /\ ops = 0
  /\ calls = NoCalls
  /\ today = D0101
  /\ metrics = NoMetrics
  /\ loads = {}
  /\ bought = <<>>

(***************************************************************************)
(* Queries                                                                 *)
(***************************************************************************)
Range(s) == {s[i] : i \in DOMAIN s}

\* every order in which the service may return the records of S
Orderings(S) ==
  {s \in [1..Cardinality(S) -> S] : Range(s) = S}

\* the records of S ascending by created_at (the service's counter, as is id)
RECURSIVE SortByCreatedAt(_)
SortByCreatedAt(S) ==
  IF S = {} THEN <<>>
  ELSE LET m == CHOOSE x \in S : \A y \in S : x.id <= y.id
       IN  <<m>> \o SortByCreatedAt(S \ {m})

\* the record of table tbl with identifier id (NoLot if there is none)
Stored(tbl, id) ==
  IF \E h \in tbl : h.id = id THEN CHOOSE h \in tbl : h.id = id ELSE NoLot

\* holdings: select * where user_id = user.id and portfolio_id = pid
\* (rows is kept as the set of the records returned)
HoldingsOf(tbl, pid) ==
  {h \in tbl : h.user_id = User /\ h.portfolio_id = pid}

\* the rows the Dashboard holds after load() ran against table tbl
LoadResult(tbl, pid, old, ok) ==
  IF pid = NoPid THEN old
  ELSE IF ok THEN HoldingsOf(tbl, pid)
  ELSE {}

(***************************************************************************)
(* Portfolios and load                                                     *)
(***************************************************************************)
\* loadPortfolios, run once by the mount effect; the change of currentPid
\* it makes triggers the effect that calls load().  fail names the
\* persistence call that returns an error ("none": no call fails).
LoadPortfolios(fail) ==
  /\ ~portfoliosLoaded
  /\ portfoliosLoaded' = TRUE
  /\ LET data == SortByCreatedAt({p \in dbPortfolios : p.user_id = User})
         created == Portfolio(nextId, User, "General")
         Throw(result) ==
           /\ lastOp' = Op("loadPortfolios", result, 0, NoLot)
           /\ UNCHANGED <<dbPortfolios, nextId, portfolios, currentPid, rows>>
     IN  /\ fail \in {"none", "select"} \cup (IF Len(data) = 0 THEN {"insert"} ELSE {})
         /\ IF fail = "select" THEN Throw("selectError")
            ELSE IF Len(data) = 0
            THEN IF fail = "insert" THEN Throw("insertError")
                 ELSE /\ dbPortfolios' = dbPortfolios \cup {created}
                      /\ nextId' = nextId + 1
                      /\ portfolios' = <<created>>
                      /\ currentPid' = created.id
                      /\ rows' = LoadResult(holdings, created.id, rows, TRUE)
                      /\ lastOp' = Op("loadPortfolios", "created", created.id, NoLot)
            ELSE /\ portfolios' = data
                 /\ currentPid' = IF currentPid = NoPid THEN data[1].id ELSE currentPid
                 /\ rows' = LoadResult(holdings, currentPid', rows, TRUE)
                 /\ lastOp' = Op("loadPortfolios", "listed", currentPid', NoLot)
                 /\ UNCHANGED <<dbPortfolios, nextId>>
  /\ UNCHANGED <<holdings, lastAction, ops>>

\* the portfolio <select>: setCurrentPid(e.target.value), then the effect
\* on currentPid calls load()
SelectPortfolio(pid, fail) ==
  /\ pid \in {portfolios[i].id : i \in DOMAIN portfolios}
  /\ pid # currentPid
  /\ currentPid' = pid
  /\ rows' = LoadResult(holdings, pid, rows, fail # "load")
  /\ lastOp' = Op("selectPortfolio", IF fail = "load" THEN "loadError" ELSE "ok",
                  pid, NoLot)
  /\ UNCHANGED <<holdings, dbPortfolios, nextId, portfoliosLoaded, portfolios,
                 lastAction, ops>>

\* load(), from the "Actualizar" button
Load(fail) ==
  /\ currentPid # NoPid
  /\ rows' = LoadResult(holdings, currentPid, rows, fail # "load")
  /\ lastOp' = Op("load", IF fail = "load" THEN "loadError" ELSE "ok", 0, NoLot)
  /\ UNCHANGED <<holdings, dbPortfolios, nextId, portfoliosLoaded, portfolios,
                 currentPid, lastAction, ops>>

(***************************************************************************)
(* addRow: validation, then insert or weighted-average merge               *)
(***************************************************************************)
\* the callback with sumaCant assigned instead of accumulated
AggStepAssign(acc, r) ==
  LET c == ColNumber(r.cantidad)
      p == ColNumber(r.precio_compra)
  IN  [sumaCant  |-> c,
       sumaCosto |-> NumAdd(acc.sumaCosto, NumMul(c, p)),
       minCompra |-> minDateStr(acc.minCompra, r.fecha_compra),
       maxFinish |-> maxDateStr(acc.maxFinish, r.fecha_finish),
       ids       |-> Append(acc.ids, r.id)]

\* the callback of existentes.reduce
AggStep(acc, r) ==
  LET c == ColNumber(r.cantidad)
      p == ColNumber(r.precio_compra)
  IN  [sumaCant  |-> NumAdd(acc.sumaCant, c),
       sumaCosto |-> NumAdd(acc.sumaCosto, NumMul(c, p)),
       minCompra |-> minDateStr(acc.minCompra, r.fecha_compra),
       maxFinish |-> maxDateStr(acc.maxFinish, r.fecha_finish),
       ids       |-> Append(acc.ids, r.id)]

RECURSIVE Reduce(_, _, _)
Reduce(existentes, i, acc) ==
  IF i > Len(existentes) THEN acc
  ELSE Reduce(existentes, i + 1, AggStep(acc, existentes[i]))

\* agg.ids.slice(2)
IdsToDeleteFrom2(ids) == {ids[i] : i \in 3..Len(ids)}

\* agg.ids.slice(1)
IdsToDelete(ids) == {ids[i] : i \in 2..Len(ids)}

\* the merge with the maturity price of the surviving lot left as it is
MergePlanKeepFinish(existentes, cantNueva, precioNuevo, precioFinishNuevo, fechaCompraNueva, fechaFinishNueva, pid) ==
  LET agg == Reduce(existentes, 1,
                    [sumaCant |-> Zero, sumaCosto |-> Zero,
                     minCompra |-> fechaCompraNueva,
                     maxFinish |-> fechaFinishNueva, ids |-> <<>>])
      totalCant  == NumAdd(agg.sumaCant, cantNueva)
      totalCosto == NumAdd(agg.sumaCosto, NumMul(cantNueva, precioNuevo))
      ppc        == NumDiv(totalCosto, totalCant)
  IN  [idToKeep |-> agg.ids[1],
       idsToDelete |-> IdsToDelete(agg.ids),
       cantidad |-> JsonNumber(totalCant),
       precio_compra |-> JsonNumber(ppc),
       precio_finish |-> existentes[1].precio_finish,
       fecha_compra |-> minDateStr(agg.minCompra, fechaCompraNueva),
       fecha_finish |-> maxDateStr(agg.maxFinish, fechaFinishNueva),
       portfolio_id |-> pid]

\* the fields addRow writes to the surviving lot, and the lots it keeps
\* and deletes, for the records existentes (non-empty) and the new purchase
MergePlan(existentes, cantNueva, precioNuevo, precioFinishNuevo, fechaCompraNueva, fechaFinishNueva, pid) ==
  LET agg == Reduce(existentes, 1,
                    [sumaCant |-> Zero, sumaCosto |-> Zero,
                     minCompra |-> fechaCompraNueva,
                     maxFinish |-> fechaFinishNueva, ids |-> <<>>])
      totalCant  == NumAdd(agg.sumaCant, cantNueva)
      totalCosto == NumAdd(agg.sumaCosto, NumMul(cantNueva, precioNuevo))
      ppc        == NumDiv(totalCosto, totalCant)
  IN  [idToKeep |-> agg.ids[1],
       idsToDelete |-> IdsToDelete(agg.ids),
       cantidad |-> JsonNumber(totalCant),
       precio_compra |-> JsonNumber(ppc),
       precio_finish |-> JsonNumber(precioFinishNuevo),
       fecha_compra |-> minDateStr(agg.minCompra, fechaCompraNueva),
       fecha_finish |-> maxDateStr(agg.maxFinish, fechaFinishNueva),
       portfolio_id |-> pid]

\* the request that deletes the other lots sent in place of the update
ApplyMergeDeleteFirst(tbl, plan) ==
  {h \in tbl : ~(h.id \in plan.idsToDelete /\ h.user_id = User)}

\* holdings.update(plan fields).eq("id", idToKeep).eq("user_id", user.id)
ApplyMergeUpdate(tbl, plan) ==
  {IF h.id = plan.idToKeep /\ h.user_id = User
   THEN [h EXCEPT !.cantidad = plan.cantidad,
                  !.precio_compra = plan.precio_compra,
                  !.precio_finish = plan.precio_finish,
                  !.fecha_compra = plan.fecha_compra,
                  !.fecha_finish = plan.fecha_finish,
                  !.portfolio_id = plan.portfolio_id]
   ELSE h : h \in tbl}

\* holdings.delete().in("id", ids).eq("user_id", user.id)
DeleteIds(tbl, ids) ==
  {h \in tbl : ~(h.id \in ids /\ h.user_id = User)}

\* the validation of addRow: "ok" or the field its alert names
AddRowCheck(ticker, cantNueva, precioNuevo, precioFinishNuevo, fechaCompraNueva, fechaFinishNueva) ==
  IF ticker = "" THEN "ticker"
  ELSE IF Falsy(precioNuevo) \/ Falsy(precioFinishNuevo) THEN "precios"
  ELSE IF Falsy(cantNueva) THEN "cantidad"
  ELSE IF fechaCompraNueva = NoDate \/ fechaFinishNueva = NoDate THEN "fechas"
  ELSE "ok"

\* a lookup that finds nothing: every purchase is inserted as a new lot
FindHoldingsNone(tbl, pid, ticker) == {}

\* holdings: select * where user_id, portfolio_id and ticker match
FindHoldings(tbl, pid, ticker) ==
  {h \in tbl : h.user_id = User /\ h.portfolio_id = pid /\ h.ticker = ticker}

\* addRow with the form as submitted; existentes is the answer of the
\* lookup (in the order the service returns it) and fail the persistence
\* call that returns an error
AddRow(form, existentes, fail) ==
  /\ ops < MaxOps
  /\ LET ticker == NormTicker(form.ticker)
         cantNueva == OrZero(ToNumber(form.cantidad))
         precioNuevo == OrZero(ToNumber(form.precio_compra))
         precioFinishNuevo == OrZero(ToNumber(form.precio_finish))
         fechaCompraNueva == form.fecha_compra
         fechaFinishNueva == form.fecha_finish
         check == AddRowCheck(ticker, cantNueva, precioNuevo, precioFinishNuevo,
                              fechaCompraNueva, fechaFinishNueva)
         queried == currentPid # NoPid /\ check = "ok"
         \* nothing written: the handler returned after an alert
         Return(result) ==
           /\ lastOp' = Op("addRow", result, 0, NoLot)
           /\ UNCHANGED <<holdings, nextId, rows, lastAction, ops>>
     IN  /\ existentes \in (IF queried
                            THEN Orderings(FindHoldings(holdings, currentPid, ticker))
                            ELSE {<<>>})
         /\ fail \in {"none"} \cup
              (IF ~queried THEN {}
               ELSE IF Len(existentes) = 0 THEN {"select", "insert"}
               ELSE IF Len(existentes) = 1 THEN {"select", "update"}
               ELSE {"select", "update", "delete"})
         /\ IF currentPid = NoPid THEN Return("noPortfolio")
            ELSE IF check # "ok" THEN Return("invalid")
            ELSE IF fail = "select" THEN Return("selectError")
            ELSE IF Len(existentes) = 0
            THEN IF fail = "insert" THEN Return("insertError")
                 ELSE /\ holdings' = holdings \cup
                           {Lot(nextId, User, currentPid, ticker,
                                JsonNumber(cantNueva), JsonNumber(precioNuevo),
                                JsonNumber(precioFinishNuevo),
                                fechaCompraNueva, fechaFinishNueva)}
                      /\ nextId' = nextId + 1
                      /\ rows' = LoadResult(holdings', currentPid, rows, TRUE)
                      /\ lastOp' = OpWith("addRow", "inserted", nextId, NoLot,
                                          form, existentes)
                      /\ ops' = ops + 1
                      /\ UNCHANGED lastAction
            ELSE LET plan == MergePlan(existentes, cantNueva, precioNuevo,
                                       precioFinishNuevo, fechaCompraNueva,
                                       fechaFinishNueva, currentPid)
                     beforeRow == CHOOSE r \in Range(existentes) : r.id = plan.idToKeep
                     updated == ApplyMergeUpdate(holdings, plan)
                 IN  IF fail = "update" THEN Return("updateError")
                     ELSE IF fail = "delete"
                     THEN \* the update is applied; the handler returns before
                          \* setLastAction and load()
                          /\ holdings' = updated
                          /\ lastOp' = OpWith("addRow", "deleteError", plan.idToKeep,
                                              Stored(holdings, plan.idToKeep),
                                              form, existentes)
                          /\ ops' = ops + 1
                          /\ UNCHANGED <<nextId, rows, lastAction>>
                     ELSE /\ holdings' = DeleteIds(updated, plan.idsToDelete)
                          /\ lastAction' = UpdateAction(beforeRow)
                          /\ rows' = LoadResult(holdings', currentPid, rows, TRUE)
                          /\ lastOp' = OpWith("addRow", "merged", plan.idToKeep,
                                              Stored(holdings, plan.idToKeep),
                                              form, existentes)
                          /\ ops' = ops + 1
                          /\ UNCHANGED nextId
  /\ UNCHANGED <<dbPortfolios, portfoliosLoaded, portfolios, currentPid>>

(***************************************************************************)
(* saveEdit, removeRow, undo                                               *)
(***************************************************************************)
\* holdings.update(payload).eq("id", id).eq("user_id", user.id)
\*   .eq("portfolio_id", currentPid)
ApplyEdit(tbl, id, pid, payload) ==
  {IF h.id = id /\ h.user_id = User /\ h.portfolio_id = pid
   THEN [h EXCEPT !.ticker = payload.ticker,
                  !.precio_compra = payload.precio_compra,
                  !.precio_finish = payload.precio_finish,
                  !.fecha_compra = payload.fecha_compra,
                  !.fecha_finish = payload.fecha_finish,
                  !.cantidad = payload.cantidad]
   ELSE h : h \in tbl}

\* the validation of saveEdit: "ok" or the field its alert names
SaveEditCheck(payload) ==
  IF payload.ticker = "" THEN "ticker"
  ELSE IF Falsy(payload.precio_compra) \/ Falsy(payload.precio_finish)
  THEN "precios"
  ELSE IF Falsy(payload.cantidad) THEN "cantidad"
  ELSE "ok"

\* saveEdit(id) for a row shown in edit mode, with editForm as the user left it
SaveEdit(id, editForm, fail) ==
  /\ ops < MaxOps
  /\ \E r \in rows : r.id = id
  /\ LET payload == [ticker |-> NormTicker(editForm.ticker),
                     precio_compra |-> OrZero(ToNumber(editForm.precio_compra)),
                     precio_finish |-> OrZero(ToNumber(editForm.precio_finish)),
                     fecha_compra |-> editForm.fecha_compra,
                     fecha_finish |-> editForm.fecha_finish,
                     cantidad |-> OrZero(ToNumber(editForm.cantidad))]
         check == SaveEditCheck(payload)
         before == CHOOSE r \in rows : r.id = id
         \* the date columns of the table reject the empty string
         rejected == payload.fecha_compra = NoDate \/ payload.fecha_finish = NoDate
         Return(result) ==
           /\ lastOp' = Op("saveEdit", result, 0, NoLot)
           /\ UNCHANGED <<holdings, rows, lastAction, ops>>
     IN  /\ fail \in {"none"} \cup
              (IF currentPid # NoPid /\ check = "ok" /\ ~rejected
               THEN {"update"} ELSE {})
         /\ IF currentPid = NoPid THEN Return("noPortfolio")
            ELSE IF check # "ok" THEN Return("invalid")
            ELSE IF fail = "update" \/ rejected THEN Return("updateError")
            ELSE /\ holdings' = ApplyEdit(holdings, id, currentPid, payload)
                 /\ lastAction' = UpdateAction(before)
                 /\ rows' = LoadResult(holdings', currentPid, rows, TRUE)
                 /\ lastOp' = OpWith("saveEdit", "saved", id, Stored(holdings, id),
                                  editForm, <<>>)
                 /\ ops' = ops + 1
  /\ UNCHANGED <<dbPortfolios, nextId, portfoliosLoaded, portfolios, currentPid>>

\* holdings.delete().eq("id", id).eq("user_id", user.id)
DeleteById(tbl, id) ==
  {h \in tbl : ~(h.id = id /\ h.user_id = User)}

\* removeRow(id) from the "Eliminar" button of a displayed row; ok is the
\* answer to confirm()
RemoveRow(id, ok, fail) ==
  /\ ops < MaxOps
  /\ \E r \in rows : r.id = id
  /\ fail \in {"none"} \cup (IF ok THEN {"delete"} ELSE {})
  /\ LET row == CHOOSE r \in rows : r.id = id
         Return(result) ==
           /\ lastOp' = Op("removeRow", result, 0, NoLot)
           /\ UNCHANGED <<holdings, rows, lastAction, ops>>
     IN  IF ~ok THEN Return("declined")
         ELSE IF fail = "delete" THEN Return("deleteError")
         ELSE /\ holdings' = DeleteById(holdings, id)
              /\ lastAction' = DeleteAction(row)
              /\ rows' = LoadResult(holdings', currentPid, rows, TRUE)
              /\ lastOp' = Op("removeRow", "deleted", id, Stored(holdings, id))
              /\ ops' = ops + 1
  /\ UNCHANGED <<dbPortfolios, nextId, portfoliosLoaded, portfolios, currentPid>>

\* holdings.update(fields of b).eq("id", b.id).eq("user_id", user.id)
ApplyRestore(tbl, b) ==
  {IF h.id = b.id /\ h.user_id = User
   THEN [h EXCEPT !.ticker = b.ticker,
                  !.precio_compra = b.precio_compra,
                  !.precio_finish = b.precio_finish,
                  !.fecha_compra = b.fecha_compra,
                  !.fecha_finish = b.fecha_finish,
                  !.cantidad = b.cantidad]
   ELSE h : h \in tbl}

\* holdings.insert of the fields undo copies from the deleted row
Reinsert(tbl, r) ==
  tbl \cup {[id |-> r.id, user_id |-> r.user_id, portfolio_id |-> r.portfolio_id,
             ticker |-> r.ticker, precio_compra |-> r.precio_compra,
             precio_finish |-> r.precio_finish, fecha_compra |-> r.fecha_compra,
             fecha_finish |-> r.fecha_finish, cantidad |-> r.cantidad,
             created_at |-> r.created_at]}

\* undo leaving the slot as it is
KeepSlot(slot) == slot

\* what undo does to the slot once its persistence call succeeded
ClearSlot(slot) == NoAction

\* undo with setLastAction(null) ahead of its persistence call
UndoClearsFirst(fail) ==
  /\ fail \in {"none"} \cup
       (IF lastAction = NoAction THEN {}
        ELSE IF lastAction.type = "delete" THEN {"insert"} ELSE {"update"})
  /\ lastAction' = NoAction
  /\ IF lastAction = NoAction
     THEN /\ lastOp' = Op("undo", "nothing", 0, NoLot)
          /\ UNCHANGED <<holdings, rows>>
     ELSE IF lastAction.type = "delete"
     THEN IF fail = "insert" \/ \E h \in holdings : h.id = lastAction.row.id
          THEN /\ lastOp' = Op("undo", "insertError", 0, NoLot)
               /\ UNCHANGED <<holdings, rows>>
          ELSE /\ holdings' = Reinsert(holdings, lastAction.row)
               /\ rows' = LoadResult(holdings', currentPid, rows, TRUE)
               /\ lastOp' = Op("undo", "reinserted", lastAction.row.id, NoLot)
     ELSE IF fail = "update"
     THEN /\ lastOp' = Op("undo", "updateError", 0, NoLot)
          /\ UNCHANGED <<holdings, rows>>
     ELSE /\ holdings' = ApplyRestore(holdings, lastAction.before)
          /\ rows' = LoadResult(holdings', currentPid, rows, TRUE)
          /\ lastOp' = Op("undo", "restored", lastAction.before.id,
                          Stored(holdings, lastAction.before.id))
  /\ UNCHANGED <<dbPortfolios, nextId, portfoliosLoaded, portfolios, currentPid, ops>>

\* undo(), from the "Deshacer" button
Undo(fail) ==
  /\ LET Return(result) ==
           /\ lastOp' = Op("undo", result, 0, NoLot)
           /\ UNCHANGED <<holdings, rows, lastAction>>
     IN  /\ fail \in {"none"} \cup
              (IF lastAction = NoAction THEN {}
               ELSE IF lastAction.type = "delete" THEN {"insert"} ELSE {"update"})
         /\ IF lastAction = NoAction THEN Return("nothing")
            ELSE IF lastAction.type = "delete"
            THEN \* the primary key rejects an id that is in the table
                 IF fail = "insert" \/ \E h \in holdings : h.id = lastAction.row.id
                 THEN Return("insertError")
                 ELSE /\ holdings' = Reinsert(holdings, lastAction.row)
                      /\ lastAction' = ClearSlot(lastAction)
                      /\ rows' = LoadResult(holdings', currentPid, rows, TRUE)
                      /\ lastOp' = Op("undo", "reinserted", lastAction.row.id, NoLot)
            ELSE IF fail = "update" THEN Return("updateError")
            ELSE /\ holdings' = ApplyRestore(holdings, lastAction.before)
                 /\ lastAction' = ClearSlot(lastAction)
                 /\ rows' = LoadResult(holdings', currentPid, rows, TRUE)
                 /\ lastOp' = Op("undo", "restored", lastAction.before.id,
                                 Stored(holdings, lastAction.before.id))
  /\ UNCHANGED <<dbPortfolios, nextId, portfoliosLoaded, portfolios, currentPid, ops>>

(***************************************************************************)
(* Inputs and the specification                                            *)
(***************************************************************************)
Form(t, c, pc, pf, fc, ff) ==
  [ticker |-> t, cantidad |-> c, precio_compra |-> pc, precio_finish |-> pf,
   fecha_compra |-> fc, fecha_finish |-> ff]

\* the purchases submitted: three with positive values, one with a negative
\* quantity, and one for each way a field can be empty, zero or not a number
AddForms ==
  { Form("a", "10", "95", "100", D0101, D0601),
    Form("a", "10", "97", "100", D0201, D0701),
    Form("B", "10", "97", "100", D0201, D0701),
    Form("a", "-10", "97", "100", D0101, D0601),
    Form(" ", "10", "97", "100", D0201, D0701),
    Form("a", "0", "97", "100", D0201, D0701),
    Form("a", "abc", "97", "100", D0201, D0701),
    Form("a", "10", "", "100", D0201, D0701),
    Form("a", "10", "97", "0", D0201, D0701),
    Form("a", "10", "97", "100", NoDate, D0701),
    Form("a", "10", "97", "100", D0201, NoDate) }

\* the contents an edit form is saved with
EditForms ==
  { Form("a", "10", "97", "100", D0201, D0701),
    Form("B", "-10", "95", "100", D0101, D0601),
    Form("", "10", "97", "100", D0201, D0701),
    Form("a", "0", "97", "100", D0201, D0701),
    Form("a", "10", "97", "100", NoDate, D0701) }

\* the failure of the load() that ends a handler is left out: it empties
\* rows exactly as the failures of Load and SelectPortfolio do.  Every
\* handler runs to its end in one step, so no invocation is left in flight.
Next ==
  /\ UNCHANGED <<calls, today, metrics, loads, bought>>
  /\ \/ \E fail \in {"none", "select", "insert"} : LoadPortfolios(fail)
     \/ \E i \in DOMAIN portfolios, fail \in {"none", "load"} :
           SelectPortfolio(portfolios[i].id, fail)
     \/ \E fail \in {"none", "load"} : Load(fail)
     \/ \E form \in AddForms :
          \E existentes \in
               Orderings(FindHoldings(holdings, currentPid, NormTicker(form.ticker)))
               \cup {<<>>},
             fail \in {"none", "select", "insert", "update", "delete"} :
            AddRow(form, existentes, fail)
     \/ \E r \in rows, editForm \in EditForms, fail \in {"none", "update"} :
           SaveEdit(r.id, editForm, fail)
     \/ \E r \in rows, ok \in BOOLEAN, fail \in {"none", "delete"} :
           RemoveRow(r.id, ok, fail)
     \/ \E fail \in {"none", "insert", "update"} : Undo(fail)

Spec == Init /\ [][Next]_vars

(***************************************************************************)
(* addRow between its awaits: the lookup, the insert or the update of the  *)
(* surviving lot, and the deletion of the other lots are three requests,   *)
(* and the handlers of other events run while each is awaited              *)
(***************************************************************************)
\* the purchases submitted in flight: both pass the validation; the second
\* carries a maturity price that no stored lot has
StepForms ==
  { Form("a", "10", "95", "100", D0101, D0601),
    Form("a", "10", "97", "97", D0201, D0701) }

\* every invocation other than c that has begun has now overlapped a step
\* of another handler
Disturbed(cs, c) ==
  [d \in Calls |-> IF d # c /\ cs[d].pc # "idle"
                   THEN [cs[d] EXCEPT !.overlap = TRUE] ELSE cs[d]]

\* invocation c has ended with result
Finished(cs, c, result) ==
  [Disturbed(cs, c) EXCEPT ![c].pc = "done", ![c].result = result,
                           ![c].alone = ~cs[c].overlap]

\* the merge an invocation computes from the answer of its lookup
CallPlan(k) ==
  MergePlan(k.existentes,
            OrZero(ToNumber(k.form.cantidad)),
            OrZero(ToNumber(k.form.precio_compra)),
            OrZero(ToNumber(k.form.precio_finish)),
            k.form.fecha_compra, k.form.fecha_finish, k.pid)

\* addRow up to the answer of its lookup: the form passed the validation,
\* existentes is what the service returns
AddRowSelect(c, form, existentes, fail) ==
  /\ ops < MaxOps
  /\ calls[c].pc \in {"idle", "done"}
  \* invocations are numbered in the order of their first call
  /\ \A d \in Calls : d < c => calls[d].pc # "idle"
  /\ currentPid # NoPid
  /\ AddRowCheck(NormTicker(form.ticker),
                 OrZero(ToNumber(form.cantidad)),
                 OrZero(ToNumber(form.precio_compra)),
                 OrZero(ToNumber(form.precio_finish)),
                 form.fecha_compra, form.fecha_finish) = "ok"
  /\ existentes \in Orderings(FindHoldings(holdings, currentPid,
                                           NormTicker(form.ticker)))
  /\ fail \in {"none", "select"}
  /\ calls' = [Disturbed(calls, c) EXCEPT ![c] =
                 [pc |-> IF fail = "select" THEN "done" ELSE "selected",
                  form |-> form, pid |-> currentPid,
                  existentes |-> IF fail = "select" THEN <<>> ELSE existentes,
                  result |-> IF fail = "select" THEN "selectError" ELSE "pending",
                  overlap |-> FALSE, alone |-> fail = "select"]]
  /\ lastOp' = Op("addRow", IF fail = "select" THEN "selectError" ELSE "selected", 0, NoLot)
  /\ ops' = ops + 1
  /\ UNCHANGED <<holdings, dbPortfolios, nextId, portfoliosLoaded, portfolios,
                 currentPid, rows, lastAction, today, metrics, loads, bought>>

\* addRow from the answer of its lookup to the answer of its insert, or of
\* the update of the surviving lot
AddRowWrite(c, fail) ==
  /\ calls[c].pc = "selected"
  /\ LET k == calls[c]
         End(result) == Finished(calls, c, result)
     IN  IF Len(k.existentes) = 0
         THEN /\ fail \in {"none", "insert"}
              /\ IF fail = "insert"
                 THEN /\ calls' = End("insertError")
                      /\ lastOp' = Op("addRow", "insertError", 0, NoLot)
                      /\ UNCHANGED <<holdings, nextId>>
                 ELSE /\ holdings' = holdings \cup
                           {Lot(nextId, User, k.pid, NormTicker(k.form.ticker),
                                JsonNumber(OrZero(ToNumber(k.form.cantidad))),
                                JsonNumber(OrZero(ToNumber(k.form.precio_compra))),
                                JsonNumber(OrZero(ToNumber(k.form.precio_finish))),
                                k.form.fecha_compra, k.form.fecha_finish)}
                      /\ nextId' = nextId + 1
                      /\ calls' = End("inserted")
                      /\ lastOp' = Op("addRow", "inserted", nextId, NoLot)
              /\ UNCHANGED lastAction
         ELSE LET plan == CallPlan(k)
                  beforeRow == CHOOSE r \in Range(k.existentes) : r.id = plan.idToKeep
              IN  /\ fail \in {"none", "update"}
                  /\ IF fail = "update"
                     THEN /\ calls' = End("updateError")
                          /\ lastOp' = Op("addRow", "updateError", 0, NoLot)
                          /\ UNCHANGED <<holdings, lastAction>>
                     ELSE /\ holdings' = ApplyMergeUpdate(holdings, plan)
                          /\ IF plan.idsToDelete = {}
                             THEN /\ calls' = End("merged")
                                  /\ lastAction' = UpdateAction(beforeRow)
                                  /\ lastOp' = Op("addRow", "merged", plan.idToKeep, NoLot)
                             ELSE /\ calls' = [Disturbed(calls, c) EXCEPT
                                                 ![c].pc = "updated"]
                                  /\ lastOp' = Op("addRow", "updated", plan.idToKeep, NoLot)
                                  /\ UNCHANGED lastAction
                  /\ UNCHANGED nextId
  /\ UNCHANGED <<dbPortfolios, portfoliosLoaded, portfolios, currentPid, rows,
                 ops, today, metrics, loads, bought>>

\* addRow from the answer of its update to the answer of the deletion of
\* the other lots; the load() it then calls is answered later (Load)
AddRowDelete(c, fail) ==
  /\ calls[c].pc = "updated"
  /\ fail \in {"none", "delete"}
  /\ LET k == calls[c]
         plan == CallPlan(k)
         beforeRow == CHOOSE r \in Range(k.existentes) : r.id = plan.idToKeep
     IN  IF fail = "delete"
         THEN /\ calls' = Finished(calls, c, "deleteError")
              /\ lastOp' = Op("addRow", "deleteError", plan.idToKeep, NoLot)
              /\ UNCHANGED <<holdings, lastAction>>
         ELSE /\ holdings' = DeleteIds(holdings, plan.idsToDelete)
              /\ lastAction' = UpdateAction(beforeRow)
              /\ calls' = Finished(calls, c, "merged")
              /\ lastOp' = Op("addRow", "merged", plan.idToKeep, NoLot)
  /\ UNCHANGED <<dbPortfolios, nextId, portfoliosLoaded, portfolios, currentPid,
                 rows, ops, today, metrics, loads, bought>>

\* the Dashboard with addRow taken request by request: the other handlers
\* run between the requests of an invocation, and rows is refreshed by the
\* load() of a handler only when that load is answered
NextSteps ==
  \/ /\ LoadPortfolios("none")
     /\ UNCHANGED <<calls, today, metrics, loads, bought>>
  \/ /\ Load("none")
     /\ UNCHANGED <<calls, today, metrics, loads, bought>>
  \/ \E c \in Calls, form \in StepForms :
       \E existentes \in Orderings(FindHoldings(holdings, currentPid,
                                                NormTicker(form.ticker))),
          fail \in {"none", "select"} :
         AddRowSelect(c, form, existentes, fail)
  \/ \E c \in Calls, fail \in {"none", "insert", "update"} : AddRowWrite(c, fail)
  \/ \E c \in Calls, fail \in {"none", "delete"} : AddRowDelete(c, fail)
  \/ /\ \E r \in rows, fail \in {"none", "update"} :
          SaveEdit(r.id, Form("B", "10", "97", "97", D0201, D0701), fail)
     /\ calls' = Disturbed(calls, 0)
     /\ UNCHANGED <<today, metrics, loads, bought>>
  \/ /\ \E r \in rows, fail \in {"none", "delete"} : RemoveRow(r.id, TRUE, fail)
     /\ calls' = Disturbed(calls, 0)
     /\ UNCHANGED <<today, metrics, loads, bought>>
  \/ /\ Undo("none")
     /\ calls' = Disturbed(calls, 0)
     /\ UNCHANGED <<today, metrics, loads, bought>>

SpecSteps == Init /\ [][NextSteps]_vars

(***************************************************************************)
(* computeMetrics applied to a record, at the times the Dashboard renders  *)
(***************************************************************************)
MaxCalls == 2

\* the values of a numeric field: absent or null, numbers the forms can
\* store, and strings
Quantities == {Null, Zero, <<10, 1>>, <<-10, 1>>, <<100, 1>>, Text("abc")}
Prices == {Null, Zero, <<1, 1>>, <<80, 1>>, <<100, 1>>, <<-95, 1>>, Text("abc")}

\* the records computeMetrics is given
MetricRows ==
  [cantidad : Quantities, precio_compra : Prices, precio_finish : Prices,
   fecha_compra : {NoDate, D0101, D0601},
   fecha_finish : {NoDate, D0101, D0601, D1231, D260101}]

\* the days the clock goes through
ClockDays == {D0101, D0201, D0701}

InitMetrics ==
  /\ dbPortfolios = OtherPortfolios /\ holdings = {LotU2}
  /\ nextId = 20
  /\ portfoliosLoaded = FALSE
  /\ portfolios = <<>>
  /\ currentPid = NoPid
  /\ rows = {}
  /\ lastAction = NoAction
  /\ lastOp = Op("init", "ok", 0, NoLot)
  /\ ops = 0
  /\ calls = NoCalls
  /\ today = D0101
  /\ \E row \in MetricRows, west \in BOOLEAN :
       metrics = [n |-> 0, row |-> row, west |-> west]
  /\ loads = {}
  /\ bought = <<>>

\* a render: computeMetrics(r) on the record; the result of the call
\* before is kept beside the new one, and so is what the first variant
\* returns for the record at the same time
Render ==
  /\ metrics.n < MaxCalls
  /\ metrics' = [n |-> metrics.n + 1, row |-> metrics.row, west |-> metrics.west,
                 out |-> computeMetrics(metrics.row, DateValue(today), metrics.west),
                 first |-> computeMetricsFirst(metrics.row, DateValue(today),
                                               metrics.west),
                 prev |-> IF metrics.n = 0 THEN NoMetrics ELSE metrics.out]
  /\ UNCHANGED <<holdings, dbPortfolios, nextId, portfoliosLoaded, portfolios,
                 currentPid, rows, lastAction, lastOp, ops, calls, today, loads, bought>>

\* days pass
Tick ==
  /\ \E d \in ClockDays : DateValue(d) > DateValue(today) /\ today' = d
  /\ UNCHANGED <<holdings, dbPortfolios, nextId, portfoliosLoaded, portfolios,
                 currentPid, rows, lastAction, lastOp, ops, calls, metrics, loads, bought>>

NextMetrics == Render \/ Tick

SpecMetrics == InitMetrics /\ [][NextMetrics]_vars

(***************************************************************************)
(* Portfolios created by the user, and the answers of load() arriving in   *)
(* any order                                                               *)
(***************************************************************************)
\* what the user types in the prompt of createPortfolio ("" is a cancelled
\* prompt)
PortfolioNames == {"", "Cartera 2"}

\* createPortfolio with the answer of prompt(); load() is called by the
\* handler with the currentPid of the render the handler belongs to, and
\* again by the effect on currentPid once the new id is set: both listings
\* are awaited when the handler ends
CreatePortfolio(name, fail) ==
  /\ ops < MaxOps
  /\ fail \in {"none"} \cup (IF name = "" THEN {} ELSE {"insert"})
  /\ LET data == Portfolio(nextId, User, Trim(name))
         Return(result) ==
           /\ lastOp' = Op("createPortfolio", result, 0, NoLot)
           /\ UNCHANGED <<dbPortfolios, nextId, portfolios, currentPid, loads, ops>>
     IN  IF name = "" THEN Return("cancelled")
         ELSE IF fail = "insert" THEN Return("insertError")
         ELSE /\ dbPortfolios' = dbPortfolios \cup {data}
              /\ nextId' = nextId + 1
              /\ portfolios' = Append(portfolios, data)
              /\ currentPid' = data.id
              /\ loads' = loads \cup {data.id}
                                \cup (IF currentPid = NoPid THEN {} ELSE {currentPid})
              /\ lastOp' = Op("createPortfolio", "created", data.id, NoLot)
              /\ ops' = ops + 1
  /\ UNCHANGED <<holdings, portfoliosLoaded, rows, lastAction, calls, today, metrics,
                 bought>>

\* the answer of the listing load() awaits for portfolio pid
LoadAnswer(pid, fail) ==
  /\ pid \in loads
  /\ loads' = loads \ {pid}
  /\ rows' = LoadResult(holdings, pid, rows, fail # "load")
  /\ lastOp' = Op("load", IF fail = "load" THEN "loadError" ELSE "ok", pid, NoLot)
  /\ UNCHANGED <<holdings, dbPortfolios, nextId, portfoliosLoaded, portfolios,
                 currentPid, lastAction, ops, calls, today, metrics, bought>>

\* the Dashboard with the listings createPortfolio starts left in flight;
\* every other handler runs to the answer of its own load() in one step,
\* and no request of theirs fails (the failures are in Spec)
NextLoads ==
  \/ /\ \E fail \in {"none", "select", "insert"} : LoadPortfolios(fail)
     /\ UNCHANGED <<calls, today, metrics, loads, bought>>
  \/ \E name \in PortfolioNames, fail \in {"none", "insert"} :
       CreatePortfolio(name, fail)
  \/ \E pid \in loads : LoadAnswer(pid, "none")
  \/ /\ \E i \in DOMAIN portfolios : SelectPortfolio(portfolios[i].id, "none")
     /\ UNCHANGED <<calls, today, metrics, loads, bought>>
  \/ /\ \E existentes \in Orderings(FindHoldings(holdings, currentPid, "A")) :
          AddRow(Form("a", "10", "95", "100", D0101, D0601), existentes, "none")
     /\ UNCHANGED <<calls, today, metrics, loads, bought>>
  \/ /\ \E r \in rows :
          SaveEdit(r.id, Form("B", "10", "97", "100", D0201, D0701), "none")
     /\ UNCHANGED <<calls, today, metrics, loads, bought>>
  \/ /\ \E r \in rows : RemoveRow(r.id, TRUE, "none")
     /\ UNCHANGED <<calls, today, metrics, loads, bought>>
  \/ /\ Undo("none")
     /\ UNCHANGED <<calls, today, metrics, loads, bought>>

SpecLoads == Init /\ [][NextLoads]_vars

(***************************************************************************)
(* Properties of addRow                                                    *)
(***************************************************************************)
\* the numbers and dates of the purchase an accepted form submits
NewCant(form) == ToNumber(form.cantidad)
NewPrecio(form) == ToNumber(form.precio_compra)

RECURSIVE SumCant(_)
SumCant(lots) ==
  IF lots = {} THEN Zero
  ELSE LET x == CHOOSE y \in lots : TRUE
       IN  NumAdd(x.cantidad, SumCant(lots \ {x}))

LotCost(x) ==
  IF x.precio_compra = Null THEN Zero ELSE NumMul(x.cantidad, x.precio_compra)

RECURSIVE SumCost(_)
SumCost(lots) ==
  IF lots = {} THEN Zero
  ELSE LET x == CHOOSE y \in lots : TRUE
       IN  NumAdd(LotCost(x), SumCost(lots \ {x}))

\* the last step was an addRow that wrote the merged values to a lot
MergeWritten ==
  lastOp.op = "addRow" /\ lastOp.result \in {"merged", "deleteError"}

\* the lot the merge kept, as the store holds it now
Kept == Stored(holdings, lastOp.id)

\* C1: after a merge, the purchase price written to the surviving lot times
\* the quantity written to it is the sum of quantity * purchase price over
\* the existing lots plus that of the new purchase.
C1_CostBasisPreserved ==
  MergeWritten =>
    /\ Kept.precio_compra # Null
    /\ NumMul(Kept.precio_compra, Kept.cantidad) =
         NumAdd(SumCost(Range(lastOp.found)),
                NumMul(NewCant(lastOp.form), NewPrecio(lastOp.form)))

\* C2: after a merge, the quantity written to the surviving lot is the sum
\* of the quantities of all the existing lots plus the new quantity.
C2_QuantityIsSum ==
  MergeWritten =>
    Kept.cantidad = NumAdd(SumCant(Range(lastOp.found)), NewCant(lastOp.form))

\* a merge of two existing lots has written the quantity of all three
C2_Witness ==
  /\ MergeWritten
  /\ Len(lastOp.found) = 2
  /\ Kept.cantidad = <<30, 1>>

C4_DateBounds ==
  MergeWritten =>
    LET compras == {lastOp.found[i].fecha_compra : i \in DOMAIN lastOp.found}
                     \cup {lastOp.form.fecha_compra}
        finishes == {lastOp.found[i].fecha_finish : i \in DOMAIN lastOp.found}
                      \cup {lastOp.form.fecha_finish}
    IN  /\ Kept.fecha_compra \in compras
        /\ \A d \in compras : DateValue(Kept.fecha_compra) <= DateValue(d)
        /\ Kept.fecha_finish \in finishes
        /\ \A d \in finishes : DateValue(Kept.fecha_finish) >= DateValue(d)

\* scenario A: the lot bought 2025-01-01..2025-06-01 merged with a purchase
\* 2025-02-01..2025-07-01 spans 2025-01-01..2025-07-01
C4_Witness ==
  /\ MergeWritten
  /\ Len(lastOp.found) = 1
  /\ lastOp.found[1].fecha_compra = D0101 /\ lastOp.found[1].fecha_finish = D0601
  /\ lastOp.form.fecha_compra = D0201 /\ lastOp.form.fecha_finish = D0701
  /\ Kept.fecha_compra = D0101 /\ Kept.fecha_finish = D0701
  /\ Kept.cantidad = <<20, 1>> /\ Kept.precio_compra = <<96, 1>>

\* a strictly positive number
Positive(x) == IsFinite(x) /\ x[1] > 0

\* a form the validation is to refuse
Refusable(form) ==
  \/ NormTicker(form.ticker) = ""
  \/ ~Positive(ToNumber(form.cantidad))
  \/ ~Positive(ToNumber(form.precio_compra))
  \/ ~Positive(ToNumber(form.precio_finish))
  \/ form.fecha_compra = NoDate
  \/ form.fecha_finish = NoDate

\* the outcomes of addRow that end in an alert
AddRowAlerts ==
  {"noPortfolio", "invalid", "selectError", "insertError", "updateError",
   "deleteError"}

\* C5: an addRow whose ticker is empty after trimming, whose quantity or
\* prices are not strictly positive numbers, or whose dates are missing
\* reports an error and changes neither the store nor the undo slot.
C5_ValidationFailsFast ==
  [][\A form \in AddForms :
       Refusable(form) =>
         \A existentes \in
              Orderings(FindHoldings(holdings, currentPid, NormTicker(form.ticker)))
              \cup {<<>>},
            fail \in {"none", "select", "insert", "update", "delete"} :
           AddRow(form, existentes, fail) =>
             /\ lastOp'.result \in AddRowAlerts
             /\ UNCHANGED <<holdings, lastAction>>]_vars

(***************************************************************************)
(* Properties of the undo slot                                             *)
(***************************************************************************)
\* the fields an edit or a merge can change
SixFields(h) ==
  <<h.ticker, h.cantidad, h.precio_compra, h.precio_finish,
    h.fecha_compra, h.fecha_finish>>

\* the step is a completed undo, right after the handler lastOp names
UndoStep(result) == lastOp'.op = "undo" /\ lastOp'.result = result

\* C6: removeRow followed immediately by undo leaves the store holding
\* exactly the record it held just before the delete, under the same id
\* and with every field as it was.
C6_UndoDeleteRoundTrip ==
  [][(lastOp.op = "removeRow" /\ lastOp.result = "deleted"
        /\ UndoStep("reinserted")) =>
       /\ lastOp.pre \in holdings'
       /\ holdings' = holdings \cup {lastOp.pre}]_vars

\* C7: undo after an edit or a merge gives the lot the ticker, quantity,
\* prices and dates the store held for it just before that edit or merge,
\* and the duplicates a merge deleted stay deleted.
C7_UndoRestoresPriorValues ==
  [][(lastOp.op \in {"saveEdit", "addRow"} /\ lastOp.result \in {"saved", "merged"}
        /\ UndoStep("restored")) =>
       /\ SixFields(Stored(holdings', lastOp.id)) = SixFields(lastOp.pre)
       /\ \A i \in 2..Len(lastOp.found) :
            \A h \in holdings' : h.id # lastOp.found[i].id]_vars

\* the handler lastOp names completed a write to the store
Completed == lastOp.result \in {"inserted", "merged", "saved", "deleted"}

\* C8: a completed insert, merge, edit or delete discards the action
\* recorded before it: an undo that follows reverses that operation and
\* no earlier one (after an insert, which records nothing, it applies
\* nothing).
C8_UndoReversesLatest ==
  [][(Completed /\ lastOp'.op = "undo"
        /\ lastOp'.result \in {"reinserted", "restored"}) =>
       /\ lastOp.result # "inserted"
       /\ lastOp'.id = lastOp.id
       /\ lastOp'.result = "reinserted" <=> lastOp.result = "deleted"]_vars

\* C9: an undo whose persistence call succeeds applies the inverse of the
\* recorded action (the deleted record is back, or the lot has the fields
\* of the snapshot and nothing else changed) and clears the slot; an undo
\* with an empty slot, as right after an undo, changes neither the store
\* nor the slot.
C9_UndoOnceThenNothing ==
  [][lastOp'.op = "undo" =>
       IF lastAction = NoAction
       THEN lastOp'.result = "nothing" /\ UNCHANGED <<holdings, lastAction>>
       ELSE lastOp'.result \in {"reinserted", "restored"} =>
              /\ lastAction' = NoAction
              /\ IF lastAction.type = "delete"
                 THEN /\ lastAction.row \notin holdings
                      /\ holdings' = holdings \cup {lastAction.row}
                 ELSE /\ {h.id : h \in holdings'} = {h.id : h \in holdings}
                      /\ \A h \in holdings' :
                           IF h.id = lastAction.before.id
                           THEN SixFields(h) = SixFields(lastAction.before)
                           ELSE h \in holdings]_vars

\* an undo has put back the values a lot had, and left the slot empty
C9_Witness ==
  /\ lastOp.op = "undo" /\ lastOp.result = "restored"
  /\ lastAction = NoAction
  /\ SixFields(Stored(holdings, lastOp.id)) # SixFields(lastOp.pre)

\* C10: once a delete, an edit or the update of a merge has taken effect in
\* the store, the slot holds its inverse: the record the store held, for a
\* delete, or the snapshot of the lot as the store held it, for an edit or
\* a merge.
C10_SlotHoldsInverse ==
  /\ (lastOp.op = "removeRow" /\ lastOp.result = "deleted") =>
       lastAction = DeleteAction(lastOp.pre)
  /\ (lastOp.op = "saveEdit" /\ lastOp.result = "saved") =>
       lastAction = UpdateAction(lastOp.pre)
  /\ MergeWritten => lastAction = UpdateAction(lastOp.pre)

(***************************************************************************)
(* Properties of addRow taken request by request                           *)
(***************************************************************************)
\* lot h holds the merge of the lots found with the purchase of form: the
\* summed quantity, the price that keeps the summed cost, the earliest
\* purchase date and the latest maturity date
HoldsMerge(h, found, form) ==
  LET compras == {found[i].fecha_compra : i \in DOMAIN found} \cup {form.fecha_compra}
      finishes == {found[i].fecha_finish : i \in DOMAIN found} \cup {form.fecha_finish}
  IN  /\ h # NoLot
      /\ h.cantidad = NumAdd(SumCant(Range(found)), NewCant(form))
      /\ h.precio_compra # Null
      /\ NumMul(h.precio_compra, h.cantidad) =
           NumAdd(SumCost(Range(found)), NumMul(NewCant(form), NewPrecio(form)))
      /\ h.fecha_compra \in compras
      /\ \A d \in compras : DateValue(h.fecha_compra) <= DateValue(d)
      /\ h.fecha_finish \in finishes
      /\ \A d \in finishes : DateValue(h.fecha_finish) >= DateValue(d)

\* invocation c found lots to merge, and no other handler has taken a step
\* since it was called
MergingAlone(c) ==
  calls[c].pc # "idle" /\ ~calls[c].overlap /\ Len(calls[c].existentes) > 0

\* C11: a merge updates the surviving lot before it deletes the other lots:
\* whenever one of the other lots an undisturbed invocation found is gone
\* from the store, the first lot it found holds the merged quantity, price
\* and dates; and when the invocation stands, or has failed, between the
\* two requests, the surviving lot holds the merged values and every other
\* lot is still stored as it was found.
C11_MergedBeforeDeleted ==
  \A c \in Calls :
    MergingAlone(c) =>
      LET k == calls[c]
          kept == Stored(holdings, k.existentes[1].id)
      IN  /\ (\E i \in 2..Len(k.existentes) :
                Stored(holdings, k.existentes[i].id) = NoLot)
               => HoldsMerge(kept, k.existentes, k.form)
          /\ (k.pc = "updated" \/ k.result = "deleteError") =>
               /\ HoldsMerge(kept, k.existentes, k.form)
               /\ \A i \in 2..Len(k.existentes) :
                    Stored(holdings, k.existentes[i].id) = k.existentes[i]

\* an undisturbed merge of two lots has deleted the second and the first
\* holds the merged values
C11_Witness ==
  \E c \in Calls :
    /\ MergingAlone(c)
    /\ Len(calls[c].existentes) = 2
    /\ calls[c].result = "merged"
    /\ Stored(holdings, calls[c].existentes[2].id) = NoLot
    /\ HoldsMerge(Stored(holdings, calls[c].existentes[1].id),
                  calls[c].existentes, calls[c].form)

\* the maturity price of the purchase submitted
NewFinish(form) == OrZero(ToNumber(form.precio_finish))

\* undisturbed invocation c has written its merge to the surviving lot
MergeApplied(c) ==
  /\ MergingAlone(c)
  /\ calls[c].pc = "updated" \/ calls[c].result \in {"merged", "deleteError"}

\* C12: the maturity price a merge writes to the surviving lot is the
\* maturity price of the new purchase, whatever maturity prices the lots
\* found carry.
C12_MaturityPriceIsNew ==
  \A c \in Calls :
    MergeApplied(c) =>
      Stored(holdings, calls[c].existentes[1].id).precio_finish =
        NewFinish(calls[c].form)

\* a purchase with maturity price 97 merged into two lots that carried 100
C12_Witness ==
  \E c \in Calls :
    /\ MergeApplied(c)
    /\ Len(calls[c].existentes) = 2
    /\ \A i \in 1..2 : calls[c].existentes[i].precio_finish = <<100, 1>>
    /\ NewFinish(calls[c].form) = <<97, 1>>
    /\ Stored(holdings, calls[c].existentes[1].id).precio_finish = <<97, 1>>

(***************************************************************************)
(* The insert path of addRow                                               *)
(***************************************************************************)
\* lot carries the purchase of form for the user in portfolio pid: the
\* ticker trimmed and upper-cased, the numbers and the dates as submitted
IsPurchase(lot, form, pid) ==
  /\ lot.user_id = User
  /\ lot.portfolio_id = pid
  /\ lot.ticker = NormTicker(form.ticker)
  /\ lot.cantidad = ToNumber(form.cantidad)
  /\ lot.precio_compra = ToNumber(form.precio_compra)
  /\ lot.precio_finish = ToNumber(form.precio_finish)
  /\ lot.fecha_compra = form.fecha_compra
  /\ lot.fecha_finish = form.fecha_finish

\* C13: an addRow that completes when the store holds no lot of the user
\* for the upper-cased ticker in the active portfolio takes the insert
\* path; the insert adds exactly one lot, under an identifier no lot had,
\* that carries the submitted ticker (upper-cased), quantity, prices and
\* dates and belongs to the user and the active portfolio, and it updates
\* or deletes no lot.
C13_InsertCreatesOneLot ==
  [][(lastOp'.op = "addRow" /\ lastOp'.result \in {"inserted", "merged"}
        /\ lastOp' # lastOp) =>
       LET found == FindHoldings(holdings, currentPid,
                                 NormTicker(lastOp'.form.ticker))
       IN  /\ found = {} <=> lastOp'.result = "inserted"
           /\ lastOp'.result = "inserted" =>
                \E lot \in holdings' :
                  /\ holdings' = holdings \cup {lot}
                  /\ \A h \in holdings : h.id # lot.id
                  /\ lot.id = lastOp'.id
                  /\ IsPurchase(lot, lastOp'.form, currentPid)]_vars

\* a purchase of a ticker the portfolio did not hold was inserted beside
\* the lots of another portfolio and of another user
C13_Witness ==
  /\ lastOp.op = "addRow" /\ lastOp.result = "inserted"
  /\ lastOp.form.ticker = "B"
  /\ Stored(holdings, lastOp.id).ticker = "B"
  /\ {LotU2, LotP2, LotA1, LotA2} \subseteq holdings

(***************************************************************************)
(* Properties of computeMetrics                                            *)
(***************************************************************************)
\* the field holds a number
IsNumber(v) == v # Null /\ Len(v) = 2

\* the three numeric fields of the record hold finite numbers
NumericRow(row) ==
  /\ IsNumber(row.cantidad) /\ IsFinite(row.cantidad)
  /\ IsNumber(row.precio_compra) /\ IsFinite(row.precio_compra)
  /\ IsNumber(row.precio_finish) /\ IsFinite(row.precio_finish)

\* both dates of the record are present
DatedRow(row) == row.fecha_compra # NoDate /\ row.fecha_finish # NoDate

\* the result of the sentinel branch: the four rates are not a number and
\* both capitals are 0
Sentinel(m) ==
  /\ m.ret = NonFinite /\ m.tna = NonFinite
  /\ m.tea = NonFinite /\ m.ytm = NonFinite
  /\ m.P = Zero /\ m.VF = Zero

\* C14: for a record with numeric fields, whenever quantity * purchase
\* price <= 0 or quantity * maturity price <= 0, and in particular whenever
\* the quantity is 0 or a price is zero or negative, the four rates are the
\* not-a-number sentinel and both capitals are reported as 0.
C14_SentinelBranch ==
  (metrics.n > 0 /\ NumericRow(metrics.row)) =>
    LET q == metrics.row.cantidad
        pc == metrics.row.precio_compra
        pf == metrics.row.precio_finish
    IN  (\/ LeqZero(NumMul(q, pc)) \/ LeqZero(NumMul(q, pf))
         \/ q = Zero \/ LeqZero(pc) \/ LeqZero(pf))
          => Sentinel(metrics.out)

FiniteRate(x) == Len(x) \in {2, 3} /\ x[2] # 0

\* C16: for a record with both dates whose quantity and prices are > 0,
\* capitalInvested = quantity * purchasePrice, capitalAtMaturity =
\* quantity * maturityPrice, simpleReturn = (capitalAtMaturity -
\* capitalInvested) / capitalInvested, nominalAnnualRate = simpleReturn *
\* 365 / daysHeld, effectiveAnnualRate is finite and yieldToMaturity is
\* equal to it.
C16_PositiveMetrics ==
  (/\ metrics.n > 0 /\ NumericRow(metrics.row) /\ DatedRow(metrics.row)
   /\ metrics.row.cantidad[1] > 0
   /\ metrics.row.precio_compra[1] > 0
   /\ metrics.row.precio_finish[1] > 0) =>
    LET m == metrics.out
        P == NumMul(metrics.row.cantidad, metrics.row.precio_compra)
        VF == NumMul(metrics.row.cantidad, metrics.row.precio_finish)
        ret == NumDiv(NumAdd(VF, NumMul(<<-1, 1>>, P)), P)
    IN  /\ m.P = P /\ m.VF = VF
        /\ m.ret = ret
        /\ m.tna = NumDiv(NumMul(ret, <<365, 1>>), <<m.dias, 1>>)
        /\ FiniteRate(m.tea)
        /\ m.ytm = m.tea

\* the field is absent, or holds something that is not a number
Invalid(v) == v = Null \/ (Len(v) = 1 /\ ToNumber(v[1]) = NonFinite)

\* C17: when the quantity or a price of the record is absent or is not a
\* number, computeMetrics takes it as 0 and returns the sentinel result:
\* the rates not a number and both capitals 0.
C17_InvalidCoercedToZero ==
  (/\ metrics.n > 0
   /\ \/ Invalid(metrics.row.cantidad)
      \/ Invalid(metrics.row.precio_compra)
      \/ Invalid(metrics.row.precio_finish)) =>
    Sentinel(metrics.out)

\* C18: two calls of computeMetrics on the same record return the same
\* result, whatever time passes between them and whether or not the dates
\* of the record are present.
C18_Deterministic ==
  metrics.n >= 2 => metrics.out = metrics.prev

(***************************************************************************)
(* Two addRow invocations for one ticker                                   *)
(***************************************************************************)
\* the lots the store holds for the ticker and portfolio of invocation c
LotsOf(c) ==
  {h \in holdings : /\ h.user_id = User
                    /\ h.portfolio_id = calls[c].pid
                    /\ h.ticker = NormTicker(calls[c].form.ticker)}

\* invocation c inserted or merged its purchase
Succeeded(c) == calls[c].pc = "done" /\ calls[c].result \in {"inserted", "merged"}

\* what invocation c found plus what it bought
TotalAfter(c) ==
  NumAdd(SumCant(Range(calls[c].existentes)), NewCant(calls[c].form))

\* C19: addRow has no mutual exclusion, and only executions in which the
\* invocations do not interleave are safe.  An invocation that runs from
\* its lookup to its end with no other handler taking a step leaves exactly
\* one lot of its ticker, holding all the quantity it found plus its
\* purchase; so when a second invocation for the same ticker then runs the
\* same way on what the first left, the single lot holds what the first
\* found plus both purchases.  (The witness is an interleaved execution
\* that leaves two lots of the ticker.)
C19_SerializedKeepsBoth ==
  \A c \in Calls :
    (Succeeded(c) /\ ~calls[c].overlap) =>
      /\ Cardinality(LotsOf(c)) = 1
      /\ \A h \in LotsOf(c) : h.cantidad = TotalAfter(c)
      /\ \A b \in Calls \ {c} :
           (/\ Succeeded(b) /\ calls[b].alone
            /\ calls[b].pid = calls[c].pid
            /\ NormTicker(calls[b].form.ticker) = NormTicker(calls[c].form.ticker)
            /\ Len(calls[c].existentes) = 1
            /\ calls[c].existentes[1].cantidad = TotalAfter(b)) =>
             \A h \in LotsOf(c) :
               h.cantidad = NumAdd(TotalAfter(b), NewCant(calls[c].form))

\* two invocations whose lookups both found nothing have both inserted:
\* the portfolio holds two lots of the ticker
C19_Witness ==
  /\ \A c \in Calls : Succeeded(c) /\ calls[c].result = "inserted"
                      /\ ~calls[c].alone
  /\ Cardinality(LotsOf(1)) = 2
  /\ LotsOf(1) = LotsOf(2)

(***************************************************************************)
(* Handlers given the id of a lot the store does not hold                  *)
(***************************************************************************)
\* the store holds a lot of the user under id
OwnedLot(id) == \E h \in holdings : h.id = id /\ h.user_id = User

\* C20: a saveEdit, removeRow or undo whose target id names no lot of the
\* user in the store (for saveEdit: in the active portfolio) reports an
\* error and mutates nothing.  So one that ends without an error, and
\* records itself in the undo slot or clears the slot, had a target the
\* store held.
C20_NotFoundIsReported ==
  [][/\ (lastOp'.op = "saveEdit" /\ lastOp'.result = "saved" /\ ops' = ops + 1) =>
          \E h \in holdings : /\ h.id = lastOp'.id /\ h.user_id = User
                              /\ h.portfolio_id = currentPid
     /\ (lastOp'.op = "removeRow" /\ lastOp'.result = "deleted" /\ ops' = ops + 1) =>
          OwnedLot(lastOp'.id)
     /\ (lastOp'.op = "undo" /\ lastOp'.result = "restored"
           /\ lastAction # NoAction /\ lastAction' = NoAction) =>
          OwnedLot(lastOp'.id)]_vars

(***************************************************************************)
(* Failures of the persistence calls                                       *)
(***************************************************************************)
\* the outcomes in which a persistence call of the handler returned an error
Failed(o) ==
  o.result \in {"selectError", "insertError", "updateError", "deleteError",
                "loadError"}

\* the handler showed the error to the user: loadPortfolios throws to the
\* catch of the mount effect, which alerts; addRow, saveEdit, removeRow and
\* undo return alert(error.message); load only writes to the console
Alerted(o) ==
  CASE o.op = "loadPortfolios" -> o.result \in {"selectError", "insertError"}
    [] o.op \in {"addRow", "saveEdit", "removeRow", "undo"} -> Failed(o)
    [] OTHER -> FALSE

\* the Dashboard shows no holdings while the store holds some for the
\* active portfolio
ShownEmpty ==
  /\ currentPid # NoPid
  /\ rows = {}
  /\ HoldingsOf(holdings, currentPid) # {}

\* C21: every failure of a persistence call made by load, loadPortfolios,
\* addRow, saveEdit, removeRow or undo is shown to the user, and a failed
\* listing of the holdings is never presented as an empty portfolio.
C21_FailuresSurfaced ==
  [][Failed(lastOp') => Alerted(lastOp') /\ ~ShownEmpty']_vars

(***************************************************************************)
(* Portfolios of the owner                                                 *)
(***************************************************************************)
\* the portfolios table tbl holds for the user
OwnerPortfolios(tbl) == {p \in tbl : p.user_id = User}

\* the step is a loadPortfolios that ended without an error
LoadedPortfolios ==
  /\ ~portfoliosLoaded /\ portfoliosLoaded'
  /\ lastOp'.op = "loadPortfolios"
  /\ lastOp'.result \in {"created", "listed"}

\* C22: after loadPortfolios completes without error the owner has at least
\* one portfolio in the store, a portfolio named "General" was created if
\* and only if the listing was empty, and the active portfolio id is the id
\* of a portfolio of the owner; no step of the program afterwards leaves
\* the owner with no portfolio.
C22_OwnerHasPortfolio ==
  [][/\ LoadedPortfolios =>
          /\ OwnerPortfolios(dbPortfolios') # {}
          /\ IF OwnerPortfolios(dbPortfolios) = {}
             THEN \E p \in OwnerPortfolios(dbPortfolios') :
                    /\ p.name = "General"
                    /\ p \notin dbPortfolios
                    /\ dbPortfolios' = dbPortfolios \cup {p}
             ELSE dbPortfolios' = dbPortfolios
          /\ currentPid' \in {p.id : p \in OwnerPortfolios(dbPortfolios')}
     /\ OwnerPortfolios(dbPortfolios) # {} => OwnerPortfolios(dbPortfolios') # {}]_vars

\* a first login has created "General", and the user has since created a
\* second portfolio, which is the active one
C22_Witness ==
  /\ portfoliosLoaded
  /\ \E p \in OwnerPortfolios(dbPortfolios) : p.name = "General" /\ p.id = 20
  /\ \E p \in OwnerPortfolios(dbPortfolios) : p.name = "Cartera 2" /\ p.id = currentPid
  /\ lastOp.op = "createPortfolio" /\ lastOp.result = "created"
  /\ Cardinality(OwnerPortfolios(dbPortfolios)) = 2

(***************************************************************************)
(* One lot per owner, portfolio and ticker                                 *)
(***************************************************************************)
\* the Dashboard opened on a store that holds at most one lot for each
\* owner, portfolio and ticker
InitUnique ==
  /\ dbPortfolios = OtherPortfolios \cup UserPortfolios
  /\ holdings = {LotU2, LotP2, LotA1}
  /\ nextId = 20
  /\ portfoliosLoaded = FALSE
  /\ portfolios = <<>>
  /\ currentPid = NoPid
  /\ rows = {}
  /\ lastAction = NoAction
  /\ lastOp = Op("init", "ok", 0, NoLot)
  /\ ops = 0
  /\ calls = NoCalls
  /\ today = D0101
  /\ metrics = NoMetrics
  /\ loads = {}
  /\ bought = <<>>

SpecUnique == InitUnique /\ [][Next]_vars

\* table tbl holds at most one lot for each owner, portfolio and ticker
Unique(tbl) ==
  \A x, y \in tbl :
    (x.user_id = y.user_id /\ x.portfolio_id = y.portfolio_id
       /\ x.ticker = y.ticker) => x.id = y.id

\* C23: from a store with at most one lot per (owner, portfolio, ticker),
\* every state reached by addRow, saveEdit, removeRow and undo has at most
\* one lot per (owner, portfolio, ticker).
C23_UniqueLots == Unique(holdings)

(***************************************************************************)
(* Repeated purchases of one ticker                                        *)
(***************************************************************************)
MaxBuys == 3

\* the purchases of ticker A submitted one after the other; all of them
\* pass the validation of addRow
BuyForms ==
  { Form("a", "10", "95", "100", D0101, D0601),
    Form("a", "10", "97", "100", D0201, D0701),
    Form("A", "100", "95", "97", D0201, D0601),
    Form("a", "95", "100", "100", D0101, D0701),
    Form("a", "-10", "97", "100", D0101, D0601) }

\* a first login
InitBuys ==
  /\ dbPortfolios = OtherPortfolios
  /\ holdings = {LotU2}
  /\ nextId = 20
  /\ portfoliosLoaded = FALSE
  /\ portfolios = <<>>
  /\ currentPid = NoPid
  /\ rows = {}
  /\ lastAction = NoAction
  /\ lastOp = Op("init", "ok", 0, NoLot)
  /\ ops = 0
  /\ calls = NoCalls
  /\ today = D0101
  /\ metrics = NoMetrics
  /\ loads = {}
  /\ bought = <<>>

\* addRow run from its validation to the answer of its load() with no
\* request failing: the lookup, then the insert or the update of the first
\* lot found and the deletion of the others
Buy(form, existentes) ==
  /\ Len(bought) < MaxBuys
  /\ currentPid # NoPid
  /\ LET ticker == NormTicker(form.ticker)
         cantNueva == OrZero(ToNumber(form.cantidad))
         precioNuevo == OrZero(ToNumber(form.precio_compra))
         precioFinishNuevo == OrZero(ToNumber(form.precio_finish))
     IN  /\ AddRowCheck(ticker, cantNueva, precioNuevo, precioFinishNuevo,
                        form.fecha_compra, form.fecha_finish) = "ok"
         /\ existentes \in Orderings(FindHoldings(holdings, currentPid, ticker))
         /\ IF Len(existentes) = 0
            THEN /\ holdings' = holdings \cup
                      {Lot(nextId, User, currentPid, ticker,
                           JsonNumber(cantNueva), JsonNumber(precioNuevo),
                           JsonNumber(precioFinishNuevo),
                           form.fecha_compra, form.fecha_finish)}
                 /\ nextId' = nextId + 1
                 /\ lastOp' = OpWith("addRow", "inserted", nextId, NoLot,
                                     form, existentes)
                 /\ UNCHANGED lastAction
            ELSE LET plan == MergePlan(existentes, cantNueva, precioNuevo,
                                       precioFinishNuevo, form.fecha_compra,
                                       form.fecha_finish, currentPid)
                     beforeRow == CHOOSE r \in Range(existentes) : r.id = plan.idToKeep
                 IN  /\ holdings' = DeleteIds(ApplyMergeUpdate(holdings, plan),
                                              plan.idsToDelete)
                     /\ lastAction' = UpdateAction(beforeRow)
                     /\ lastOp' = OpWith("addRow", "merged", plan.idToKeep,
                                         Stored(holdings, plan.idToKeep),
                                         form, existentes)
                     /\ UNCHANGED nextId
  /\ rows' = LoadResult(holdings', currentPid, rows, TRUE)
  /\ bought' = Append(bought, form)
  /\ UNCHANGED <<dbPortfolios, portfoliosLoaded, portfolios, currentPid, ops,
                 calls, today, metrics, loads>>

NextBuys ==
  \/ /\ LoadPortfolios("none")
     /\ UNCHANGED <<calls, today, metrics, loads, bought>>
  \/ \E form \in BuyForms :
       \E existentes \in Orderings(FindHoldings(holdings, currentPid,
                                                NormTicker(form.ticker))) :
         Buy(form, existentes)

SpecBuys == InitBuys /\ [][NextBuys]_vars

\* the sum of the quantities, and of quantity * price, of the purchases
\* forms[i..]
RECURSIVE BoughtCant(_, _)
BoughtCant(forms, i) ==
  IF i > Len(forms) THEN Zero
  ELSE NumAdd(NewCant(forms[i]), BoughtCant(forms, i + 1))

RECURSIVE BoughtCost(_, _)
BoughtCost(forms, i) ==
  IF i > Len(forms) THEN Zero
  ELSE NumAdd(NumMul(NewCant(forms[i]), NewPrecio(forms[i])),
              BoughtCost(forms, i + 1))

\* the lots of ticker A in the active portfolio
LotsOfA == FindHoldings(holdings, currentPid, "A")

\* C24: after any sequence of completed addRow calls for one owner,
\* portfolio and ticker, with nothing else in between, a single lot of the
\* ticker is left; its quantity is the sum of the quantities submitted and
\* its quantity times its purchase price is the sum of the submitted
\* quantity * price products, whatever the order of the purchases.
C24_Conservation ==
  Len(bought) > 0 =>
    /\ Cardinality(LotsOfA) = 1
    /\ \A h \in LotsOfA :
         /\ h.cantidad = BoughtCant(bought, 1)
         /\ h.precio_compra # Null
         /\ NumMul(h.cantidad, h.precio_compra) = BoughtCost(bought, 1)

(***************************************************************************)
(* What addRow leaves alone                                                *)
(***************************************************************************)
\* the records of the table before and after the step that the step
\* created, changed or removed
Touched == (holdings \ holdings') \cup (holdings' \ holdings)

\* C25: an addRow for ticker T in the active portfolio P of owner U creates,
\* updates or deletes only lots whose owner is U, portfolio is P and ticker
\* is T; every other lot is left unchanged, on the insert and on the merge
\* path.  Stated of each request of an invocation: the records the request
\* creates, changes or removes are of the owner, of the portfolio the
\* invocation was called in and of the ticker it was called with.
C25_AddRowFrame ==
  [][\A c \in Calls :
       (calls[c].pc \in {"selected", "updated"} /\ calls'[c].pc # calls[c].pc) =>
         \A h \in Touched :
           /\ h.user_id = User
           /\ h.portfolio_id = calls[c].pid
           /\ h.ticker = NormTicker(calls[c].form.ticker)]_vars

(***************************************************************************)
(* The rows shown and the active portfolio                                 *)
(***************************************************************************)
\* C26: whenever no load request is in flight, the rows the Dashboard holds
\* are the holdings the store has for the user in the selected portfolio,
\* in whatever order the answers of overlapping load calls arrived.
C26_RowsMatchPortfolio ==
  (loads = {} /\ currentPid # NoPid) => rows = HoldingsOf(holdings, currentPid)

(***************************************************************************)
(* The undo slot when a handler fails                                      *)
(***************************************************************************)
\* C27: when the persistence call of undo fails, the recorded action stays
\* in the slot and the store is unchanged; when the persistence call of
\* removeRow or saveEdit fails, or the user declines the confirmation of
\* removeRow, the slot keeps the value it had.
C27_FailureKeepsSlot ==
  [][/\ (lastOp'.op = "undo" /\ lastOp'.result \in {"insertError", "updateError"}) =>
          /\ lastAction # NoAction
          /\ lastAction' = lastAction
          /\ holdings' = holdings
     /\ (lastOp'.op = "removeRow" /\ lastOp'.result \in {"deleteError", "declined"}) =>
          /\ lastAction' = lastAction
          /\ holdings' = holdings
     /\ (lastOp'.op = "saveEdit" /\ lastOp'.result = "updateError") =>
          /\ lastAction' = lastAction
          /\ holdings' = holdings]_vars

\* the undo of a deletion has failed: the deleted lot is still in the slot
\* and still absent from the store
C27_Witness ==
  /\ lastOp.op = "undo" /\ lastOp.result = "insertError"
  /\ lastAction.type = "delete"
  /\ lastAction.row.id = 11
  /\ ~ \E h \in holdings : h.id = 11

(***************************************************************************)
(* The two variants of the interface                                       *)
(***************************************************************************)
\* C28: for every holding record, computeMetrics and diffDaysUTC of
\* lecaps-app/src/App.tsx and those of the first variant return the same
\* days held, capitals and rates, in the sentinel branch as well.
C28_VariantsAgree ==
  metrics.n > 0 =>
    /\ metrics.first.dias = metrics.out.dias
    /\ metrics.first.P = metrics.out.P
    /\ metrics.first.VF = metrics.out.VF
    /\ metrics.first.ret = metrics.out.ret
    /\ metrics.first.tna = metrics.out.tna
    /\ metrics.first.tea = metrics.out.tea
    /\ metrics.first.ytm = metrics.out.ytm

\* both variants have computed scenario B: 100 bought at 80 maturing at 100
\* after 364 days is a return of 1/4
C28_Witness ==
  /\ metrics.n > 0
  /\ metrics.row.cantidad = <<100, 1>>
  /\ metrics.row.precio_compra = <<80, 1>>
  /\ metrics.row.precio_finish = <<100, 1>>
  /\ metrics.row.fecha_compra = D0101 /\ metrics.row.fecha_finish = D1231
  /\ metrics.first.dias = 364 /\ metrics.out.dias = 364
  /\ metrics.first.ret = <<1, 4>> /\ metrics.out.ret = <<1, 4>>

====
